---- MODULE Spec2Model ----
(***************************************************************************)
(* VectorManager (src/core/vector_manager.js): requests made with create   *)
(* are queued, a debounce timer decides when the queue is flushed, the     *)
(* flush splits the queued strings into size-bounded batches, sends the    *)
(* batches to the engine in waves and hands every request its own outcome. *)
(***************************************************************************)
EXTENDS Integers, Sequences, FiniteSets, TLC

\* ------------------------------------------------------------------ bounds
\* Number of create calls one behaviour issues.
MaxReq == 2
\* Longest item list and largest budget the batch-splitting runs are given.
MaxItems == 5
MaxBudget == 3

\* ------------------------------------------------------------ input values
\* A value is a record [type, body]: null, undefined, a string (body is its
\* characters) or an array of one-digit numbers (body is its digits).
Null == [type |-> "null", body |-> <<>>]
Undefined == [type |-> "undefined", body |-> <<>>]
Str(chars) == [type |-> "string", body |-> chars]
Arr(digits) == [type |-> "object", body |-> digits]

\* The values create is called with.
Values == {Str(<<"a">>), Arr(<<"1">>)}

\* The configurations a manager is given before use.
Configurations ==
  {[maximumBatchSize |-> 2, maximumParallelRequests |-> 2],
   [maximumBatchSize |-> 4, maximumParallelRequests |-> 1],
   [maximumBatchSize |-> 0, maximumParallelRequests |-> 1]}

Min(a, b) == IF a < b THEN a ELSE b
Max(a, b) == IF a > b THEN a ELSE b

\* Array.prototype.join(",") of a sequence of one-character elements.
RECURSIVE Join(_)
Join(s) ==
  IF Len(s) = 0 THEN <<>>
  ELSE IF Len(s) = 1 THEN <<s[1]>>
  ELSE <<s[1], ",">> \o Join(Tail(s))

\* JSON.stringify of an array of one-digit numbers.
JsonStringify(digits) == <<"[">> \o Join(digits) \o <<"]">>

\* convertToString(value)
convertToString(value) ==
  IF value.type \in {"null", "undefined"} THEN <<>>
  ELSE IF value.type = "object" THEN JsonStringify(value.body)
  ELSE value.body

\* `${value}`: the conversion the template literal of create's error applies.
TemplateString(value) ==
  IF value.type = "null" THEN <<"n", "u", "l", "l">>
  ELSE IF value.type = "undefined"
    THEN <<"u", "n", "d", "e", "f", "i", "n", "e", "d">>
  ELSE IF value.type = "object" THEN Join(value.body)
  ELSE value.body

\* str.slice(0, end)
Slice(str, end) ==
  IF end < 0 THEN SubSeq(str, 1, Max(Len(str) + end, 0))
  ELSE SubSeq(str, 1, Min(end, Len(str)))

\* ---------------------------------------------------------- batch splitting
\* The mutant of SplitStep: the item that opens a batch is left out of it.
SplitStepDrop(acc, str, budget) ==
  LET s == Slice(str, budget)
      n == Len(acc.batches)
      cur == acc.curBatchSize + Len(s)
  IN IF cur > budget
       THEN [batches |-> Append(acc.batches, <<>>), curBatchSize |-> 0]
       ELSE [batches |-> [acc.batches EXCEPT ![n] = Append(@, s)],
             curBatchSize |-> cur]

\* The mutant of SplitStep: the string is not cut to the budget.
SplitStepNoTruncate(acc, str, budget) ==
  LET n == Len(acc.batches)
      cur == acc.curBatchSize + Len(str)
  IN IF cur > budget
       THEN [batches |-> Append(acc.batches, <<str>>), curBatchSize |-> Len(str)]
       ELSE [batches |-> [acc.batches EXCEPT ![n] = Append(@, str)],
             curBatchSize |-> cur]

\* The mutant of SplitStep: the running total restarts at zero, not at the
\* length of the item that opens the batch.
SplitStepResetZero(acc, str, budget) ==
  LET s == Slice(str, budget)
      n == Len(acc.batches)
      cur == acc.curBatchSize + Len(s)
  IN IF cur > budget
       THEN [batches |-> Append(acc.batches, <<s>>), curBatchSize |-> 0]
       ELSE [batches |-> [acc.batches EXCEPT ![n] = Append(@, s)],
             curBatchSize |-> cur]

\* The mutant of SplitStep: a batch is closed when the total reaches the
\* budget, not when it exceeds it.
SplitStepOffByOne(acc, str, budget) ==
  LET s == Slice(str, budget)
      n == Len(acc.batches)
      cur == acc.curBatchSize + Len(s)
  IN IF cur >= budget
       THEN [batches |-> Append(acc.batches, <<s>>), curBatchSize |-> Len(s)]
       ELSE [batches |-> [acc.batches EXCEPT ![n] = Append(@, s)],
             curBatchSize |-> cur]

\* One iteration of the splitting loop: acc is [batches, curBatchSize].
SplitStep(acc, str, budget) ==
  LET s == Slice(str, budget)
      n == Len(acc.batches)
      cur == acc.curBatchSize + Len(s)
  IN IF cur > budget
       THEN [batches |-> Append(acc.batches, <<s>>), curBatchSize |-> Len(s)]
       ELSE [batches |-> [acc.batches EXCEPT ![n] = Append(@, s)],
             curBatchSize |-> cur]

\* The state the splitting loop starts in: batches = [[]], curBatchSize = 0.
SplitStart == [batches |-> << <<>> >>, curBatchSize |-> 0]

RECURSIVE SplitLoop(_, _, _)
SplitLoop(strValues, acc, budget) ==
  IF Len(strValues) = 0 THEN acc
  ELSE SplitLoop(Tail(strValues), SplitStep(acc, Head(strValues), budget), budget)

\* The batches batchVectorize builds for the strings of a queue.
SplitBatches(strValues, budget) == SplitLoop(strValues, SplitStart, budget).batches

\* batches.splice(0, n): the batches taken and the batches left.
Splice(batches, n) ==
  LET m == Min(Max(n, 0), Len(batches))
  IN [taken |-> SubSeq(batches, 1, m),
      rest |-> SubSeq(batches, m + 1, Len(batches))]

RECURSIVE Flatten(_)
Flatten(batches) ==
  IF Len(batches) = 0 THEN <<>> ELSE Head(batches) \o Flatten(Tail(batches))

RECURSIVE TotalLen(_)
TotalLen(strs) ==
  IF Len(strs) = 0 THEN 0 ELSE Len(Head(strs)) + TotalLen(Tail(strs))

\* ------------------------------------------------------------------- state
VARIABLES
  vectorize,                \* this._vectorize: "null" or "fn"
  maximumBatchSize,         \* this.maximumBatchSize
  maximumParallelRequests,  \* this.maximumParallelRequests
  queue,                    \* this._queue: the pending requests, in order
  results,                  \* this._results: request -> stored outcome
  timeout,                  \* this._timeout: NoTimer or a timer handle
  armed,                    \* the timers set and not yet fired or cleared
  processing,               \* this._processing
  flushes,                  \* every __dequeue__ so far, with batchVectorize's locals
                            \* and the order in which its calls settled
  calls,                    \* every engine call so far, with its settlement
  requests,                 \* every create so far: value, position in its code,
                            \* what it returned or threw, its batchCreate, and
                            \* whether the manager was idle when it was issued
  groups,                   \* every batchCreate so far: its Promise.all
  splitIn,                  \* a splitting run: the strings still to place
  splitAll,                 \* a splitting run: the strings it was given
  splitBudget,              \* a splitting run: maximumBatchSize
  splitAcc                  \* a splitting run: batches and curBatchSize

vars == <<vectorize, maximumBatchSize, maximumParallelRequests, queue, results,
          timeout, armed, processing, flushes, calls, requests, groups,
          splitIn, splitAll, splitBudget, splitAcc>>

managerVars == <<vectorize, maximumBatchSize, maximumParallelRequests, queue,
                 results, timeout, armed, processing, flushes, calls, requests,
                 groups>>

splitVars == <<splitIn, splitAll, splitBudget, splitAcc>>

NoTimer == 0

\* What this._results holds for a request, what create returns and what it
\* throws: t is "none" (no entry), "vector" (the array the engine returned at
\* position pos of call), "scalar" (a truthy value that is no array),
\* "minusone" (the -1 marker), "error" (an Error: call names the rejected
\* call whose reason it carries, pos is 0 for the reason itself and k for the
\* Error built around a reason that is no Error), "EngineNotConfigured" or
\* "InvalidVectorResult" (input is the value the message names).
Outcome(t, call, pos, input) == [t |-> t, call |-> call, pos |-> pos, input |-> input]
NoResult == Outcome("none", 0, 0, <<>>)
MinusOne == Outcome("minusone", 0, 0, <<>>)

\* What the engine may put at one position of the sequence it returns: an
\* array, a falsy value (or nothing), a truthy value that is no array.
EntryKinds == {"vector", "falsy"}

\* The settlements of an engine call made with n strings: rejected with an
\* Error or with another value, fulfilled with a value that is no array, or
\* fulfilled with an array of vectors and gaps (a missing entry reads as a
\* falsy one) or with an array of truthy values that are no arrays.
EngineSettlements(n) ==
  {[status |-> "rejected", isError |-> e, isArray |-> FALSE, entries |-> <<>>] :
     e \in BOOLEAN}
  \cup {[status |-> "fulfilled", isError |-> FALSE, isArray |-> FALSE, entries |-> <<>>]}
  \cup {[status |-> "fulfilled", isError |-> FALSE, isArray |-> TRUE, entries |-> es] :
     es \in [1..n -> EntryKinds] \cup {[k \in 1..n |-> "scalar"]}}

Init ==
  /\ vectorize = "null"
  /\ \E cfg \in Configurations :
       /\ maximumBatchSize = cfg.maximumBatchSize
       /\ maximumParallelRequests = cfg.maximumParallelRequests
  /\ queue = <<>>
  /\ results = <<>>
  /\ timeout = NoTimer
  /\ armed = {}
  /\ processing = FALSE
  /\ flushes = <<>>
  /\ calls = <<>>
  /\ requests = <<>>
  /\ groups = <<>>
  /\ splitIn = <<>>
  /\ splitAll = <<>>
  /\ splitBudget = 0
  /\ splitAcc = SplitStart

\* ------------------------------------------------------------------ timers
\* setTimeout: the handle of a new timer, unlike the handles of the timers
\* that are set and unlike the handle this._timeout still holds.
NewTimer(set, handle) ==
  LET used == {a.id : a \in set} \cup {handle}
  IN CHOOSE id \in 1..(Cardinality(used) + 1) :
       /\ id \notin used
       /\ \A other \in 1..(Cardinality(used) + 1) : other \notin used => id <= other

\* clearTimeout(handle)
ClearTimeout(set, handle) == {a \in set : a.id # handle}

\* this.fastQueueTime and this.waitQueueTime, in milliseconds.
fastQueueTime == 10

waitQueueTime == 100

\* A timer set by setTimeout: its handle, the callback it runs (kind), its
\* delay, and the time from the start of the fastQueueTime timer it follows
\* to its own expiry (since).
Timer(id, kind, delay, started) ==
  [id |-> id, kind |-> kind, delay |-> delay, since |-> started + delay]

\* The mutant of WaitDelay: the second timer runs for the whole waitQueueTime.
WaitDelayFull(fast, wait) == wait

\* The delay of the second timer.
WaitDelay(fast, wait) == wait - fast

\* createTimeout() on the manager fields m = [queue, timeout, armed].
createTimeout(m) ==
  LET id == NewTimer(m.armed, m.timeout)
  IN [m EXCEPT !.timeout = id, !.armed = @ \cup {Timer(id, "fast", fastQueueTime, 0)}]

\* The mutant of FastExpiry: on a longer queue the timer is set again and
\* again.
FastExpiryKeepsWaiting(isProcessing, queueLength) ==
  IF isProcessing \/ queueLength > 1 THEN "reschedule" ELSE "flush"

\* The mutant of FastExpiry: a flush in progress is not looked at.
FastExpiryIgnoresProcessing(isProcessing, queueLength) ==
  IF queueLength <= 1 THEN "flush" ELSE "extend"

\* What the callback of the fastQueueTime timer does.
FastExpiry(isProcessing, queueLength) ==
  IF isProcessing THEN "reschedule"
  ELSE IF queueLength <= 1 THEN "flush"
  ELSE "extend"

\* ------------------------------------------------------------------ create
\* The mutant of EngineMissing: the engine is not checked.
EngineNeverMissing(fn) == FALSE

\* create's first test.
EngineMissing(fn) == fn = "null"

\* The mutant of TimerNeeded: every create starts a timer.
TimerAlwaysNeeded(handle) == TRUE

\* create's test before createTimeout.
TimerNeeded(handle) == handle = NoTimer

\* this._queue.push(item)
PushItem(q, r) == Append(q, r)

\* create, up to its polling loop, on the manager fields m.
CreateEnqueue(m, r) ==
  LET pushed == [m EXCEPT !.queue = PushItem(@, r)]
  IN IF TimerNeeded(pushed.timeout) THEN createTimeout(pushed) ELSE pushed

RECURSIVE CreateAll(_, _)
CreateAll(m, rs) ==
  IF Len(rs) = 0 THEN m ELSE CreateAll(CreateEnqueue(m, Head(rs)), Tail(rs))

NotConfigured == Outcome("EngineNotConfigured", 0, 0, <<>>)

\* The requests create adds for the values vs, issued by group g (0: a create
\* of its own), and whether the manager was idle when they were issued.
NewRequests(vs, g, pc, ret) ==
  [k \in 1..Len(vs) |->
     [value |-> vs[k], pc |-> pc, ret |-> ret, group |-> g,
      idle |-> (queue = <<>> /\ timeout = NoTimer /\ ~processing)]]

\* The create calls for the values vs, made one after the other without a
\* suspension point between them.
IssueCreates(vs, g) ==
  LET first == Len(requests)
      rs == [k \in 1..Len(vs) |-> first + k]
  IN /\ Len(requests) + Len(vs) <= MaxReq
     /\ IF EngineMissing(vectorize)
          THEN /\ requests' = requests \o NewRequests(vs, g, "threw", NotConfigured)
               /\ results' = results \o [k \in 1..Len(vs) |-> NoResult]
               /\ UNCHANGED <<queue, timeout, armed>>
          ELSE LET m == CreateAll([queue |-> queue, timeout |-> timeout,
                                   armed |-> armed], rs)
               IN /\ requests' = requests \o NewRequests(vs, g, "waiting", NoResult)
                  /\ results' = results \o [k \in 1..Len(vs) |-> NoResult]
                  /\ queue' = m.queue
                  /\ timeout' = m.timeout
                  /\ armed' = m.armed

\* setEngine(fnVectorize): only an async function is accepted.
SetEngine(kind) ==
  /\ vectorize' = IF kind = "AsyncFunction" THEN "fn" ELSE vectorize
  /\ UNCHANGED <<maximumBatchSize, maximumParallelRequests, queue, results,
                 timeout, armed, processing, flushes, calls, requests, groups>>
  /\ UNCHANGED splitVars

\* create(value)
Create(value) ==
  /\ IssueCreates(<<value>>, 0)
  /\ UNCHANGED <<vectorize, maximumBatchSize, maximumParallelRequests,
                 processing, flushes, calls, groups>>
  /\ UNCHANGED splitVars

\* batchCreate(values): Promise.all over one create per value.
BatchCreate(vs) ==
  LET g == Len(groups) + 1
      first == Len(requests)
  IN /\ IssueCreates(vs, g)
     /\ groups' = Append(groups,
          [input |-> vs, members |-> [k \in 1..Len(vs) |-> first + k],
           status |-> IF EngineMissing(vectorize) THEN "rejected" ELSE "pending",
           values |-> <<>>,
           error |-> IF EngineMissing(vectorize) THEN NotConfigured ELSE NoResult])
     /\ UNCHANGED <<vectorize, maximumBatchSize, maximumParallelRequests,
                    processing, flushes, calls>>
     /\ UNCHANGED splitVars

\* --------------------------------------------------------------- the flush
\* The engine calls of one wave: one per batch taken, each still pending.
WaveCalls(f, taken) ==
  [j \in 1..Len(taken) |->
     [flush |-> f, args |-> taken[j], status |-> "pending", isError |-> FALSE,
      isArray |-> FALSE, entries |-> <<>>]]

\* The mutant of WaveSize: every batch that is left is sent at once.
WaveSizeUnbounded(limit, left) == left

\* How many batches batches.splice(0, maximumParallelRequests) takes.
WaveSize(limit, left) == Min(Max(limit, 0), left)

\* The start of batchVectorize(queue) up to its first await: the strings are
\* split into batches and the first wave of engine calls is made.
StartFlush(snapshot) ==
  LET f == Len(flushes) + 1
      strValues == [k \in 1..Len(snapshot) |->
                      convertToString(requests[snapshot[k]].value)]
      batches == SplitBatches(strValues, maximumBatchSize)
      sp == Splice(batches, WaveSize(maximumParallelRequests, Len(batches)))
  IN /\ flushes' = Append(flushes,
          [snapshot |-> snapshot, batches |-> sp.rest, i |-> 0,
           wave |-> [j \in 1..Len(sp.taken) |-> Len(calls) + j],
           settled |-> <<>>, done |-> FALSE])
     /\ calls' = calls \o WaveCalls(f, sp.taken)

\* The mutant of EmptiedQueue: the queue is left as it is.
QueueKept(q) == q

\* this._queue = [] after the snapshot was taken.
EmptiedQueue(q) == <<>>

\* __dequeue__(), called from a timer callback that left the timers in `left`.
Dequeue(left) ==
  /\ processing' = TRUE
  /\ armed' = ClearTimeout(left, timeout)
  /\ timeout' = NoTimer
  /\ queue' = EmptiedQueue(queue)
  /\ StartFlush(queue)
  /\ UNCHANGED <<vectorize, maximumBatchSize, maximumParallelRequests, results,
                 requests, groups>>
  /\ UNCHANGED splitVars

\* The fastQueueTime timer t expires while a flush is in progress.
FastExpiryReschedule(t) ==
  /\ t \in armed /\ t.kind = "fast"
  /\ FastExpiry(processing, Len(queue)) = "reschedule"
  /\ LET m == createTimeout([queue |-> queue, timeout |-> timeout,
                             armed |-> armed \ {t}])
     IN timeout' = m.timeout /\ armed' = m.armed
  /\ UNCHANGED <<vectorize, maximumBatchSize, maximumParallelRequests, queue,
                 results, processing, flushes, calls, requests, groups>>
  /\ UNCHANGED splitVars

\* The fastQueueTime timer t expires on a queue of at most one request.
FastExpiryFlush(t) ==
  /\ t \in armed /\ t.kind = "fast"
  /\ FastExpiry(processing, Len(queue)) = "flush"
  /\ Dequeue(armed \ {t})

\* The fastQueueTime timer t expires on a longer queue: the second timer,
\* of waitQueueTime - fastQueueTime, is set.
FastExpiryExtend(t) ==
  /\ t \in armed /\ t.kind = "fast"
  /\ FastExpiry(processing, Len(queue)) = "extend"
  /\ LET id == NewTimer(armed \ {t}, timeout)
     IN /\ timeout' = id
        /\ armed' = (armed \ {t}) \cup
                      {Timer(id, "wait", WaitDelay(fastQueueTime, waitQueueTime),
                             t.since)}
  /\ UNCHANGED <<vectorize, maximumBatchSize, maximumParallelRequests, queue,
                 results, processing, flushes, calls, requests, groups>>
  /\ UNCHANGED splitVars

\* The second timer t expires.
WaitExpiry(t) ==
  /\ t \in armed /\ t.kind = "wait"
  /\ Dequeue(armed \ {t})

\* The positions of a wave in the order forEach visits them: batch by batch,
\* each batch front to back.
RECURSIVE WavePositions(_, _)
WavePositions(wave, log) ==
  IF Len(wave) = 0 THEN <<>>
  ELSE [k \in 1..Len(log[Head(wave)].args) |-> [call |-> Head(wave), pos |-> k]]
       \o WavePositions(Tail(wave), log)

\* The mutant of StoredOutcome: a rejected call is treated like an empty result.
StoredOutcomeSwallowsError(c, call, k, p) ==
  LET vectors == IF call.isArray THEN call.entries ELSE <<>>
  IN IF k <= Len(vectors) /\ vectors[k] # "falsy"
       THEN Outcome(vectors[k], c, k, <<>>)
       ELSE MinusOne

\* The mutant of StoredOutcome: a missing entry is filled with the batch's
\* first vector.
StoredOutcomeFillsGap(c, call, k, p) ==
  IF call.status = "rejected"
    THEN Outcome("error", c, IF call.isError THEN 0 ELSE k, <<>>)
  ELSE LET vectors == IF call.isArray THEN call.entries ELSE <<>>
       IN IF k <= Len(vectors) /\ vectors[k] # "falsy"
            THEN Outcome(vectors[k], c, k, <<>>)
          ELSE IF Len(vectors) > 0 /\ vectors[1] = "vector"
            THEN Outcome("vector", c, 1, <<>>)
          ELSE MinusOne

\* What the forEach of batchVectorize stores for position k of the settled
\* call c (p is the position's rank in the whole wave).
StoredOutcome(c, call, k, p) ==
  IF call.status = "rejected"
    THEN Outcome("error", c, IF call.isError THEN 0 ELSE k, <<>>)
  ELSE LET vectors == IF call.isArray THEN call.entries ELSE <<>>
       IN IF k <= Len(vectors) /\ vectors[k] # "falsy"
            THEN Outcome(vectors[k], c, k, <<>>)
            ELSE MinusOne

\* The mutant of CursorIndex: the cursor starts again at every wave.
CursorIndexPerWave(i, p) == p

\* queue[i++]: the index the p-th write of a wave uses, the cursor being i
\* when the wave's forEach starts.
CursorIndex(i, p) == i + p

\* The mutant of ResultOrder: the results are taken as the calls settled.
ResultOrderOfSettling(wave, settled) ==
  SelectSeq(settled, LAMBDA c : \E j \in 1..Len(wave) : wave[j] = c)

\* The calls whose results Promise.allSettled hands to the forEach, in its
\* order: that of the calls it was given (wave), whatever the order in which
\* they settled.
ResultOrder(wave, settled) == wave

\* this._results after the forEach over the settled wave of flush fl (its
\* field settled holds the calls of the flush in the order they settled).
Distribute(fl, log) ==
  LET positions == WavePositions(ResultOrder(fl.wave, fl.settled), log)
      written == {p \in 1..Len(positions) :
                    CursorIndex(fl.i, p) \in 1..Len(fl.snapshot)}
      last(r) == CHOOSE p \in written :
                   /\ fl.snapshot[CursorIndex(fl.i, p)] = r
                   /\ \A q \in written :
                        fl.snapshot[CursorIndex(fl.i, q)] = r => q <= p
  IN [r \in DOMAIN results |->
        IF \E p \in written : fl.snapshot[CursorIndex(fl.i, p)] = r
          THEN StoredOutcome(positions[last(r)].call, log[positions[last(r)].call],
                             positions[last(r)].pos, last(r))
          ELSE results[r]]

\* The engine call c settles. When it is the last of its wave, Promise.allSettled
\* resolves and batchVectorize runs on without a suspension point: the wave's
\* outcomes are stored in batch order and the next wave of calls is made, or
\* the loop ends, __dequeue__ resumes and clears this._processing.
EngineSettle(c, settlement) ==
  /\ c \in 1..Len(calls)
  /\ calls[c].status = "pending"
  /\ settlement \in EngineSettlements(Len(calls[c].args))
  /\ LET f == calls[c].flush
         fl == flushes[f]
         log == [calls EXCEPT ![c] = [flush |-> f, args |-> calls[c].args,
                                      status |-> settlement.status,
                                      isError |-> settlement.isError,
                                      isArray |-> settlement.isArray,
                                      entries |-> settlement.entries]]
         positions == WavePositions(fl.wave, log)
         now == [fl EXCEPT !.settled = Append(@, c)]
         sp == Splice(fl.batches,
                      WaveSize(maximumParallelRequests, Len(fl.batches)))
     IN IF \E j \in 1..Len(fl.wave) : log[fl.wave[j]].status = "pending"
          THEN /\ calls' = log
               /\ flushes' = [flushes EXCEPT ![f] = now]
               /\ UNCHANGED <<results, processing>>
        ELSE IF Len(fl.batches) > 0
          THEN /\ results' = Distribute(now, log)
               /\ calls' = log \o WaveCalls(f, sp.taken)
               /\ flushes' = [flushes EXCEPT ![f] =
                    [snapshot |-> fl.snapshot, batches |-> sp.rest,
                     i |-> fl.i + Len(positions),
                     wave |-> [j \in 1..Len(sp.taken) |-> Len(log) + j],
                     settled |-> now.settled, done |-> FALSE]]
               /\ UNCHANGED processing
        ELSE /\ results' = Distribute(now, log)
             /\ calls' = log
             /\ flushes' = [flushes EXCEPT ![f] =
                  [snapshot |-> fl.snapshot, batches |-> <<>>,
                   i |-> fl.i + Len(positions), wave |-> <<>>,
                   settled |-> now.settled, done |-> TRUE]]
             /\ processing' = FALSE
  /\ UNCHANGED <<vectorize, maximumBatchSize, maximumParallelRequests, queue,
                 timeout, armed, requests, groups>>
  /\ UNCHANGED splitVars

\* ------------------------------------------------------- create's outcome
\* The mutant of Classify: whatever is stored is returned.
ClassifyReturnsAnything(result, value) ==
  IF result.t = "error" THEN [pc |-> "threw", ret |-> result]
  ELSE [pc |-> "returned", ret |-> result]

\* The end of create: the stored outcome is thrown or returned.
Classify(result, value) ==
  IF result.t = "error" THEN [pc |-> "threw", ret |-> result]
  ELSE IF result.t # "vector"
    THEN [pc |-> "threw",
          ret |-> Outcome("InvalidVectorResult", 0, 0, TemplateString(value))]
  ELSE [pc |-> "returned", ret |-> result]

\* The mutant of AllValues: the values are collected in order of completion
\* (here: the last member to complete comes first).
AllValuesByCompletion(members, reqs, r) ==
  <<reqs[r].ret>> \o
  [k \in 1..(Len(SelectSeq(members, LAMBDA x : x # r))) |->
     reqs[SelectSeq(members, LAMBDA x : x # r)[k]].ret]

\* What Promise.all resolves with: the members' values in the members' order.
AllValues(members, reqs, r) == [k \in 1..Len(members) |-> reqs[members[k]].ret]

\* Promise.all of group g after its member r has returned or thrown.
SettleGroup(g, r, reqs) ==
  LET gr == groups[g]
  IN IF gr.status # "pending" THEN groups
     ELSE IF reqs[r].pc = "threw"
       THEN [groups EXCEPT ![g] = [input |-> gr.input, members |-> gr.members,
                                   status |-> "rejected",
                                   values |-> <<>>, error |-> reqs[r].ret]]
     ELSE IF \A k \in 1..Len(gr.members) : reqs[gr.members[k]].pc = "returned"
       THEN [groups EXCEPT ![g] = [input |-> gr.input, members |-> gr.members,
                                   status |-> "resolved",
                                   values |-> AllValues(gr.members, reqs, r),
                                   error |-> NoResult]]
     ELSE groups

\* The mutant of DeleteResult: the outcome is left in this._results.
DeleteResultSkipped(res, r) == res

\* this._results.delete(item)
DeleteResult(res, r) == [res EXCEPT ![r] = NoResult]

\* The polling loop of create(r) finds an outcome: it is deleted from
\* this._results and returned or thrown.
CreatePoll(r) ==
  /\ r \in 1..Len(requests)
  /\ requests[r].pc = "waiting"
  /\ results[r] # NoResult
  /\ LET c == Classify(results[r], requests[r].value)
         reqs == [requests EXCEPT ![r] = [value |-> requests[r].value,
                                          pc |-> c.pc, ret |-> c.ret,
                                          group |-> requests[r].group,
                                          idle |-> requests[r].idle]]
     IN /\ requests' = reqs
        /\ groups' = IF requests[r].group = 0 THEN groups
                     ELSE SettleGroup(requests[r].group, r, reqs)
  /\ results' = DeleteResult(results, r)
  /\ UNCHANGED <<vectorize, maximumBatchSize, maximumParallelRequests, queue,
                 timeout, armed, processing, flushes, calls>>
  /\ UNCHANGED splitVars

\* ------------------------------------------------------ the specifications
Next ==
  \/ \E kind \in {"AsyncFunction", "Function", "none"} : SetEngine(kind)
  \/ \E v \in Values : Create(v)
  \/ \E n \in 2..MaxReq : \E vs \in [1..n -> Values] : BatchCreate(vs)
  \/ \E t \in armed : FastExpiryReschedule(t)
  \/ \E t \in armed : FastExpiryFlush(t)
  \/ \E t \in armed : FastExpiryExtend(t)
  \/ \E t \in armed : WaitExpiry(t)
  \/ \E c \in 1..Len(calls) :
       \E s \in EngineSettlements(Len(calls[c].args)) : EngineSettle(c, s)
  \/ \E r \in 1..Len(requests) : CreatePoll(r)

Spec == Init /\ [][Next]_vars

\* ------------------------------------------------- batch splitting alone
\* The string of n characters.
Chars(n) == [k \in 1..n |-> "x"]

\* The item lists and budgets the splitting runs are given: strings of up to
\* one character more than the largest budget.
SplitStrings == {Chars(n) : n \in 0..(MaxBudget + 1)}
SplitLists == UNION {[1..n -> SplitStrings] : n \in 0..MaxItems}

InitSplit ==
  /\ vectorize = "null"
  /\ maximumBatchSize = 0
  /\ maximumParallelRequests = 0
  /\ queue = <<>>
  /\ results = <<>>
  /\ timeout = NoTimer
  /\ armed = {}
  /\ processing = FALSE
  /\ flushes = <<>>
  /\ calls = <<>>
  /\ requests = <<>>
  /\ groups = <<>>
  /\ splitAll \in SplitLists
  /\ splitIn = splitAll
  /\ splitBudget \in 0..MaxBudget
  /\ splitAcc = SplitStart

\* One iteration of the while loop that fills the batches.
SplitIterate ==
  /\ Len(splitIn) > 0
  /\ splitAcc' = SplitStep(splitAcc, Head(splitIn), splitBudget)
  /\ splitIn' = Tail(splitIn)
  /\ UNCHANGED <<splitAll, splitBudget>>
  /\ UNCHANGED managerVars

SpecSplit == InitSplit /\ [][SplitIterate]_vars

\* ================================================================= claims
\* The number of strings the earlier calls of c's flush were made with: the
\* place of c's first string in the flattened order of the flush's batches.
RECURSIVE ArgsBefore(_, _)
ArgsBefore(c, d) ==
  IF d = 0 THEN 0
  ELSE (IF calls[d].flush = calls[c].flush THEN Len(calls[d].args) ELSE 0)
       + ArgsBefore(c, d - 1)

OffsetOf(c) == ArgsBefore(c, c - 1)

\* Where request r was sent: the engine calls and positions that carry the
\* item at r's place in the snapshot of its flush.
Places(r) ==
  {pl \in [call : 1..Len(calls), pos : 1..MaxReq] :
     /\ pl.pos <= Len(calls[pl.call].args)
     /\ LET snapshot == flushes[calls[pl.call].flush].snapshot
            idx == OffsetOf(pl.call) + pl.pos
        IN idx <= Len(snapshot) /\ snapshot[idx] = r}

\* The string of request r as batchVectorize sends it.
OwnString(r) == Slice(convertToString(requests[r].value), maximumBatchSize)

\* Request r is over and got past create's engine test.
Finished(r) ==
  /\ requests[r].pc \in {"returned", "threw"}
  /\ requests[r].ret # NotConfigured

\* The engine returned a vector at position k of call c.
VectorAt(c, k) ==
  /\ calls[c].status = "fulfilled"
  /\ calls[c].isArray
  /\ calls[c].entries[k] = "vector"

\* The engine fulfilled call c without a usable vector at position k.
NoVectorAt(c, k) ==
  /\ calls[c].status = "fulfilled"
  /\ ~calls[c].isArray \/ calls[c].entries[k] # "vector"

\* Request r has thrown the InvalidVectorResult error that names its value.
ThrewInvalid(r) ==
  /\ requests[r].pc = "threw"
  /\ requests[r].ret =
       Outcome("InvalidVectorResult", 0, 0, TemplateString(requests[r].value))

\* Request r has returned the vector of position k of call c.
ReturnedVector(r, c, k) ==
  /\ requests[r].pc = "returned"
  /\ requests[r].ret = Outcome("vector", c, k, <<>>)

\* Request r has thrown the error call c was rejected with.
ThrewReason(r, c) ==
  /\ requests[r].pc = "threw"
  /\ requests[r].ret.t = "error"
  /\ requests[r].ret.call = c

\* C1: every create that is over got the outcome of its own place: the
\* engine call that carried its own string at its own batch position gave it
\* the vector it returned, the error it threw, or no usable vector; an outcome
\* that is stored and not yet read also names the request's own place.
NoCrossRequestLeakage ==
  \A r \in 1..Len(requests) :
    /\ Finished(r) =>
         \E pl \in Places(r) :
           /\ calls[pl.call].args[pl.pos] = OwnString(r)
           /\ \/ ReturnedVector(r, pl.call, pl.pos) /\ VectorAt(pl.call, pl.pos)
              \/ ThrewReason(r, pl.call) /\ calls[pl.call].status = "rejected"
              \/ ThrewInvalid(r) /\ NoVectorAt(pl.call, pl.pos)
    /\ results[r].t \in {"vector", "scalar", "error"} =>
         \E pl \in Places(r) :
           /\ results[r].call = pl.call
           /\ results[r].t # "error" => results[r].pos = pl.pos

\* C1's case: two requests with equal values, flushed together, have both
\* returned, each a vector of its own.
LeakageCaseReached ==
  \E r1, r2 \in 1..Len(requests) :
    /\ r1 < r2
    /\ requests[r1].value = requests[r2].value
    /\ requests[r1].pc = "returned" /\ requests[r2].pc = "returned"
    /\ requests[r1].ret # requests[r2].ret
    /\ \E f \in 1..Len(flushes) :
         \E i1, i2 \in 1..Len(flushes[f].snapshot) :
           flushes[f].snapshot[i1] = r1 /\ flushes[f].snapshot[i2] = r2

\* The engine calls made and not yet settled.
OutstandingCalls == {c \in 1..Len(calls) : calls[c].status = "pending"}

\* C2: the engine calls made and not yet settled are never more than
\* maximumParallelRequests, over all flushes and waves.
OutstandingWithinCeiling == Cardinality(OutstandingCalls) <= maximumParallelRequests

\* C2's case: the ceiling is reached while batches of the flush are waiting
\* for the next wave.
CeilingReached ==
  /\ Cardinality(OutstandingCalls) = maximumParallelRequests
  /\ \E f \in 1..Len(flushes) : Len(flushes[f].batches) > 0

MalformedEntryFailsAlone ==
  \A r \in 1..Len(requests) : \A pl \in Places(r) :
    (NoVectorAt(pl.call, pl.pos) /\ Finished(r)) =>
      /\ ThrewInvalid(r)
      /\ \A r2 \in 1..Len(requests) : \A pl2 \in Places(r2) :
           (r2 # r /\ VectorAt(pl2.call, pl2.pos) /\ Finished(r2)) =>
             ReturnedVector(r2, pl2.call, pl2.pos)

\* C4's case: in one batch an entry is missing and its request has thrown,
\* the other entry is a vector and its request has returned it; the two
\* requests have different values.
MalformedEntryCaseReached ==
  \E r, r2 \in 1..Len(requests) : \E pl \in Places(r) : \E pl2 \in Places(r2) :
    /\ pl.call = pl2.call
    /\ calls[pl.call].isArray
    /\ NoVectorAt(pl.call, pl.pos)
    /\ ThrewInvalid(r)
    /\ requests[r].value # requests[r2].value
    /\ ReturnedVector(r2, pl2.call, pl2.pos)

\* C5: a step that issues create calls while no engine is set ends each of
\* them with EngineNotConfigured and changes nothing else: the queue, the
\* timer, the stored outcomes, the flushes and the engine calls are as before.
CreateWithoutEngineFails ==
  [][(Len(requests') > Len(requests) /\ vectorize = "null") =>
       /\ \A r \in (Len(requests) + 1)..Len(requests') :
            /\ requests'[r].pc = "threw"
            /\ requests'[r].ret = NotConfigured
            /\ results'[r] = NoResult
       /\ SubSeq(requests', 1, Len(requests)) = requests
       /\ SubSeq(results', 1, Len(results)) = results
       /\ UNCHANGED <<vectorize, queue, timeout, armed, processing, flushes, calls>>
    ]_vars

\* C5's case: a create has failed with EngineNotConfigured and the manager
\* still has an empty queue and no timer.
CreateWithoutEngineReached ==
  /\ \E r \in 1..Len(requests) : requests[r].ret = NotConfigured
  /\ vectorize = "null"
  /\ queue = <<>>
  /\ timeout = NoTimer
  /\ armed = {}

\* A step that sets a timer does so from a create that found no timer handle
\* or from the callback of the timer that has just expired.
TimerStartRule ==
  (armed' \ armed # {}) =>
    /\ Cardinality(armed' \ armed) = 1
    /\ \/ Len(requests') > Len(requests) /\ armed = {} /\ timeout = NoTimer
       \/ Len(requests') = Len(requests) /\ \E t \in armed : t \notin armed'

\* A create that arrives while a timer is set leaves the timers as they are.
CreateKeepsTimer ==
  (Len(requests') > Len(requests) /\ armed # {}) =>
    armed' = armed /\ timeout' = timeout

\* C6: at most one debounce timer is set in every state; a create that finds
\* a timer pending starts none, and a timer is started only by a create that
\* finds no timer handle or by the callback of the timer that expired.
OneDebounceTimer ==
  /\ [](Cardinality(armed) <= 1)
  /\ [][TimerStartRule /\ CreateKeepsTimer]_vars

\* C6's case: a second request was queued while the timer of the first was
\* pending, and the one timer that is set is the second, longer one.
OneTimerCaseReached ==
  /\ Cardinality(armed) = 1
  /\ Len(queue) >= 2
  /\ \E t \in armed : t.kind = "wait"

\* The strings of a list as the splitting loop places them.
Truncated(strs, budget) == [k \in 1..Len(strs) |-> Slice(strs[k], budget)]

\* C7: after every iteration of the splitting loop the batches, concatenated
\* in order, followed by the truncated strings still to place, are the
\* truncated strings of the whole list in their order; when the loop ends the
\* batches alone are.
BatchesFlattenToItems ==
  Flatten(splitAcc.batches) \o Truncated(splitIn, splitBudget)
    = Truncated(splitAll, splitBudget)

\* C7's case: the loop has ended with several batches, one of them of two
\* items or more, and an item was truncated.
FlattenCaseReached ==
  /\ splitIn = <<>>
  /\ Len(splitAcc.batches) >= 3
  /\ \E b \in 1..Len(splitAcc.batches) : Len(splitAcc.batches[b]) >= 2
  /\ \E k \in 1..Len(splitAll) : Len(splitAll[k]) > splitBudget

IssuedTogether(g) ==
  /\ Len(groups[g].members) >= 2
  /\ groups[g].error # NotConfigured
  /\ requests[groups[g].members[1]].idle
  /\ TotalLen([k \in 1..Len(groups[g].input) |->
                 convertToString(groups[g].input[k])]) <= maximumBatchSize

\* C9: the requests of create calls issued together into an idle manager,
\* whose strings fit maximumBatchSize in total, are flushed together, and
\* exactly one engine call is made for them: it starts with their strings in
\* the order the create calls were issued.
IssuedTogetherOneCall ==
  \A g \in 1..Len(groups) : IssuedTogether(g) =>
    LET members == groups[g].members
        n == Len(members)
        strs == [k \in 1..n |-> convertToString(groups[g].input[k])]
    IN \A f \in 1..Len(flushes) :
         (\E idx \in 1..Len(flushes[f].snapshot) :
            \E k \in 1..n : flushes[f].snapshot[idx] = members[k]) =>
           /\ Len(flushes[f].snapshot) >= n
           /\ SubSeq(flushes[f].snapshot, 1, n) = members
           /\ Cardinality({c \in 1..Len(calls) :
                             calls[c].flush = f /\ OffsetOf(c) < n}) = 1
           /\ \E c \in 1..Len(calls) :
                /\ calls[c].flush = f
                /\ OffsetOf(c) = 0
                /\ Len(calls[c].args) >= n
                /\ SubSeq(calls[c].args, 1, n) = strs

\* C9's case: such a group of different values has been flushed and all its
\* requests have returned.
IssuedTogetherReached ==
  \E g \in 1..Len(groups) :
    /\ IssuedTogether(g)
    /\ groups[g].input[1] # groups[g].input[2]
    /\ \A k \in 1..Len(groups[g].members) :
         requests[groups[g].members[k]].pc = "returned"

\* C10: a batchCreate that resolved did so with one entry per value, the
\* entry at index i being what the create issued for values[i] returned: the
\* vector of that request's own place.
BatchCreateKeepsOrder ==
  \A g \in 1..Len(groups) : groups[g].status = "resolved" =>
    /\ Len(groups[g].values) = Len(groups[g].input)
    /\ \A i \in 1..Len(groups[g].input) :
         LET r == groups[g].members[i]
         IN /\ requests[r].value = groups[g].input[i]
            /\ requests[r].group = g
            /\ requests[r].pc = "returned"
            /\ groups[g].values[i] = requests[r].ret
            /\ \E pl \in Places(r) :
                 groups[g].values[i] = Outcome("vector", pl.call, pl.pos, <<>>)

\* C10's case: a batchCreate resolved whose values went to different engine
\* calls in different waves.
BatchCreateOrderReached ==
  \E g \in 1..Len(groups) :
    /\ groups[g].status = "resolved"
    /\ Len(groups[g].values) >= 2
    /\ groups[g].values[1].call # groups[g].values[2].call
    /\ maximumParallelRequests = 1

\* ---------------------------------------------------- one large batchCreate
\* The state after setEngine and one batchCreate of MaxReq + 1 values on a new
\* instance that sends more than one batch at a time: every value is queued
\* and the first create has set the timer.
InitWaves ==
  /\ vectorize = "fn"
  /\ \E cfg \in {c \in Configurations : c.maximumParallelRequests > 1} :
       /\ maximumBatchSize = cfg.maximumBatchSize
       /\ maximumParallelRequests = cfg.maximumParallelRequests
  /\ \E vs \in [1..(MaxReq + 1) -> Values] :
       /\ requests = [k \in 1..Len(vs) |->
                        [value |-> vs[k], pc |-> "waiting", ret |-> NoResult,
                         group |-> 1, idle |-> TRUE]]
       /\ groups = <<[input |-> vs, members |-> [k \in 1..Len(vs) |-> k],
                      status |-> "pending", values |-> <<>>, error |-> NoResult]>>
  /\ LET m == CreateAll([queue |-> <<>>, timeout |-> NoTimer, armed |-> {}],
                        [k \in 1..(MaxReq + 1) |-> k])
     IN queue = m.queue /\ timeout = m.timeout /\ armed = m.armed
  /\ results = [k \in 1..(MaxReq + 1) |-> NoResult]
  /\ processing = FALSE
  /\ flushes = <<>>
  /\ calls = <<>>
  /\ splitIn = <<>>
  /\ splitAll = <<>>
  /\ splitBudget = 0
  /\ splitAcc = SplitStart

\* What runs after the batchCreate when no further create is made.
NextWaves ==
  \/ \E t \in armed : FastExpiryExtend(t)
  \/ \E t \in armed : WaitExpiry(t)
  \/ \E c \in 1..Len(calls) :
       \E settlement \in EngineSettlements(Len(calls[c].args)) :
         EngineSettle(c, settlement)
  \/ \E r \in 1..Len(requests) : CreatePoll(r)

SpecWaves == InitWaves /\ [][NextWaves]_vars


\* Request r is in the snapshot of flush f.
InSnapshot(r, f, fls) ==
  \E idx \in 1..Len(fls[f].snapshot) : fls[f].snapshot[idx] = r

\* A step writes the outcome slot of r: the slot was empty, r is waiting, and
\* the step settles an engine call of the flush whose snapshot holds r.
SlotWritten(r) ==
  /\ results[r] = NoResult
  /\ results'[r] # NoResult
  /\ requests[r].pc = "waiting"
  /\ requests'[r] = requests[r]
  /\ \E c \in 1..Len(calls) :
       /\ calls[c].status = "pending"
       /\ calls'[c].status # "pending"
       /\ InSnapshot(r, calls[c].flush, flushes)

\* A step hands r's caller the stored outcome and removes the slot; no other
\* request ends in the step.
SlotConsumed(r) ==
  /\ results[r] # NoResult
  /\ results'[r] = NoResult
  /\ requests[r].pc = "waiting"
  /\ requests'[r].pc \in {"returned", "threw"}
  /\ IF results[r].t \in {"vector", "error"}
       THEN requests'[r].ret = results[r]
       ELSE requests'[r].ret.t = "InvalidVectorResult"
  /\ \A r2 \in 1..Len(requests) : r2 # r => requests'[r2] = requests[r2]

\* C11: the outcome slot of a request changes only twice: it is written once,
\* while the request waits, by a step of the flush whose snapshot holds the
\* request, and it is removed by the step that hands that outcome to the
\* request's own caller; a request ends only by that step, and once it has
\* ended neither its outcome nor its (empty) slot changes again.
SlotWrittenOnceDeliveredOnce ==
  [][\A r \in 1..Len(requests) :
       /\ results'[r] # results[r] => SlotWritten(r) \/ SlotConsumed(r)
       /\ (requests[r].pc = "waiting" /\ requests'[r].pc # "waiting") =>
            SlotConsumed(r)
       /\ requests[r].pc # "waiting" =>
            requests'[r] = requests[r] /\ results'[r] = NoResult
    ]_vars

\* C11's case: of two requests of one flush, sent in different waves, the
\* first has been handed its vector and its slot is empty again, while the
\* outcome of the second is stored and not yet read.
SlotCaseReached ==
  \E r, r2 \in 1..Len(requests) : \E f \in 1..Len(flushes) :
    /\ r # r2
    /\ InSnapshot(r, f, flushes) /\ InSnapshot(r2, f, flushes)
    /\ requests[r].pc = "returned" /\ results[r] = NoResult
    /\ requests[r2].pc = "waiting" /\ results[r2] # NoResult
    /\ results[r2].call # requests[r].ret.call
    /\ maximumParallelRequests = 1

\* The step is the expiry of timer t: t was set and is set no longer.
Expires(t) == t \in armed /\ t \notin armed'

\* C12: when a fastQueueTime timer expires while a flush is in progress, the
\* step starts no flush and no engine call, leaves the queue as it is, and sets
\* one new fastQueueTime timer in its place; when it expires with no flush in
\* progress, no fastQueueTime timer is set again: a flush starts or the second
\* timer is set.
FastExpiryWaitsForFlush ==
  [][\A t \in armed :
       (t.kind = "fast" /\ Expires(t)) =>
         IF processing
           THEN /\ flushes' = flushes /\ calls' = calls /\ queue' = queue
                /\ processing'
                /\ \E n \in armed' \ armed :
                     /\ n.kind = "fast" /\ n.delay = fastQueueTime
                     /\ armed' = (armed \ {t}) \cup {n}
                     /\ timeout' = n.id
           ELSE /\ \A n \in armed' \ armed : n.kind = "wait"
                /\ Len(flushes') > Len(flushes) \/ armed' \ armed # {}
    ]_vars

\* C12's case: a flush is in progress past a re-set fastQueueTime timer. A
\* create sets its timer on the handle after null, so a fastQueueTime timer on
\* another handle is one that a timer callback set.
RescheduledReached ==
  /\ processing
  /\ Len(queue) >= 1
  /\ \E t \in armed :
       /\ t.kind = "fast"
       /\ t.id # NewTimer({}, NoTimer)
       /\ timeout = t.id

\* The step starts a flush that takes the whole queue.
FlushStarts ==
  /\ Len(flushes') = Len(flushes) + 1
  /\ flushes'[Len(flushes')].snapshot = queue
  /\ queue' = <<>>
  /\ processing'

\* C13: a fastQueueTime timer that expires with no flush in progress on a queue
\* of at most one request starts the flush in that step, fastQueueTime after it
\* was set; on a queue of two or more it starts no flush and sets one timer of
\* waitQueueTime - fastQueueTime; the expiry of that timer, waitQueueTime
\* after the first timer was set, starts a flush whatever the state, and the
\* flush takes every request then queued.
DebounceDecision ==
  [][\A t \in armed :
       Expires(t) =>
         /\ (t.kind = "fast" /\ ~processing /\ Len(queue) <= 1) =>
              FlushStarts /\ t.since = fastQueueTime /\ armed' = {}
         /\ (t.kind = "fast" /\ ~processing /\ Len(queue) >= 2) =>
              /\ flushes' = flushes /\ calls' = calls /\ queue' = queue
              /\ ~processing'
              /\ \E n \in armed' :
                   /\ armed' = {n} /\ timeout' = n.id
                   /\ n.kind = "wait"
                   /\ n.delay = waitQueueTime - fastQueueTime
                   /\ n.since = waitQueueTime
         /\ t.kind = "wait" =>
              FlushStarts /\ t.since = waitQueueTime /\ armed' = {}
    ]_vars

\* C13's case: two separate creates were queued when the first timer
\* expired, and the flush of the second timer has taken both.
ExtendedFlushReached ==
  \E f \in 1..Len(flushes) :
    /\ Len(flushes[f].snapshot) >= 2
    /\ requests[flushes[f].snapshot[1]].group = 0
    /\ requests[flushes[f].snapshot[2]].group = 0

\* The engine calls of flush f that a step makes, in the order they are made.
IssuedNow(f) ==
  SelectSeq([j \in 1..(Len(calls') - Len(calls)) |-> Len(calls) + j],
            LAMBDA c : calls'[c].flush = f)

\* The batches flush f has not sent yet when a step begins; for a flush that
\* starts in the step, the batches of the queue it takes.
NotYetSent(f) ==
  IF f <= Len(flushes) THEN flushes[f].batches
  ELSE SplitBatches([k \in 1..Len(queue) |->
                       convertToString(requests[queue[k]].value)],
                    maximumBatchSize)

\* C14: whenever a step makes engine calls for a flush, it makes at most
\* maximumParallelRequests of them, for the next batches of the flush in batch
\* order, and every call the flush made before has settled by then; while a
\* call of the flush is outstanding no call is added, also when fewer calls
\* than the ceiling are outstanding.
WavesInOrder ==
  [][\A f \in 1..Len(flushes') :
       LET new == IssuedNow(f)
       IN Len(new) > 0 =>
            /\ Len(new) <= maximumParallelRequests
            /\ Len(new) <= Len(NotYetSent(f))
            /\ \A j \in 1..Len(new) : calls'[new[j]].args = NotYetSent(f)[j]
            /\ \A c \in 1..Len(calls) :
                 calls[c].flush = f => calls'[c].status # "pending"
    ]_vars

\* C14's case: a flush has batches left to send and fewer calls outstanding
\* than the ceiling, one call of the wave having settled and one not.
WaveNotToppedUpReached ==
  \E f \in 1..Len(flushes) :
    /\ Len(flushes[f].batches) > 0
    /\ \E j, k \in 1..Len(flushes[f].wave) :
         /\ calls[flushes[f].wave[j]].status # "pending"
         /\ calls[flushes[f].wave[k]].status = "pending"
    /\ Cardinality({j \in 1..Len(flushes[f].wave) :
                      calls[flushes[f].wave[j]].status = "pending"})
         < maximumParallelRequests

\* create accepted request r: it did not fail for want of an engine.
Accepted(r) == requests[r].ret.t # "EngineNotConfigured"

\* In how many places of the sequence seq the request r stands.
Occurrences(r, seq) == Cardinality({idx \in 1..Len(seq) : seq[idx] = r})

RECURSIVE SnapshotOccurrences(_, _)
SnapshotOccurrences(r, f) ==
  IF f = 0 THEN 0
  ELSE Occurrences(r, flushes[f].snapshot) + SnapshotOccurrences(r, f - 1)

\* C15: an accepted request stands either once in the queue and in no flush
\* snapshot, or in one place of one snapshot and not in the queue; a step that
\* starts a flush starts one, whose snapshot is the whole queue, and leaves the
\* queue empty; a snapshot never changes afterwards, so a request accepted
\* later is queued for a later flush.
OneSnapshotPerRequest ==
  /\ [](\A r \in 1..Len(requests) :
          Accepted(r) =>
            Occurrences(r, queue) + SnapshotOccurrences(r, Len(flushes)) = 1)
  /\ [][/\ Len(flushes') > Len(flushes) =>
             /\ Len(flushes') = Len(flushes) + 1
             /\ flushes'[Len(flushes')].snapshot = queue
             /\ queue' = <<>>
        /\ \A f \in 1..Len(flushes) :
             flushes'[f].snapshot = flushes[f].snapshot
       ]_vars

\* C15's case: a request was accepted while an engine call of a flush was
\* outstanding; it is in the queue and not in that flush's snapshot.
QueuedDuringFlushReached ==
  \E r \in 1..Len(requests) : \E c \in 1..Len(calls) :
    /\ calls[c].status = "pending"
    /\ ~flushes[calls[c].flush].done
    /\ ~requests[r].idle
    /\ Occurrences(r, queue) = 1
    /\ ~InSnapshot(r, calls[c].flush, flushes)

\* What the forEach has to store for position k of the settled call c: the
\* call's reason when it was rejected, the entry at place k of the array it
\* returned when that entry is truthy, and the marker -1 otherwise.
EngineOutcome(c, k) ==
  IF calls[c].status = "rejected"
    THEN Outcome("error", c, IF calls[c].isError THEN 0 ELSE k, <<>>)
  ELSE IF calls[c].isArray /\ k <= Len(calls[c].entries)
          /\ calls[c].entries[k] # "falsy"
    THEN Outcome(calls[c].entries[k], c, k, <<>>)
  ELSE MinusOne

\* The wave of call c has been handed out: the flush has moved past it.
HandedOut(c) ==
  /\ calls[c].status # "pending"
  /\ \A j \in 1..Len(flushes[calls[c].flush].wave) :
       flushes[calls[c].flush].wave[j] # c

\* Request r holds the outcome o, in its slot or as what create made of it.
HoldsOutcome(r, o) ==
  IF requests[r].pc = "waiting" THEN results[r] = o
  ELSE IF o.t \in {"vector", "error"} THEN requests[r].ret = o
  ELSE requests[r].ret.t = "InvalidVectorResult"

\* C16: once a wave has been handed out, the request whose string was sent at
\* position k of the call for batch j holds the outcome the engine produced
\* for position k of that call, whatever the order in which the calls of the
\* wave settled and whichever of them failed or returned something malformed.
CursorIgnoresSettlingOrder ==
  \A c \in 1..Len(calls) :
    HandedOut(c) =>
      \A k \in 1..Len(calls[c].args) :
        HoldsOutcome(flushes[calls[c].flush].snapshot[OffsetOf(c) + k],
                     EngineOutcome(c, k))

\* C16's case: the second call of a wave settled before the first, one of
\* the two was rejected and the other returned a vector, and the wave has been
\* handed out.
ReverseSettlingReached ==
  \E f \in 1..Len(flushes) : \E a, b \in 1..Len(flushes[f].settled) :
    LET c == flushes[f].settled[a]
        d == flushes[f].settled[b]
    IN /\ a < b /\ c = d + 1
       /\ HandedOut(c) /\ HandedOut(d)
       /\ calls[d].status = "rejected"
       /\ calls[c].status = "fulfilled" /\ calls[c].isArray
       /\ calls[c].entries[1] = "vector"
       /\ maximumParallelRequests >= 2

\* The list given to the splitting loop is of five strings of one length, and
\* the budget holds two of them and not three.
FiveEqualTwoFit ==
  /\ Len(splitAll) = 5
  /\ \A k \in 1..Len(splitAll) : Len(splitAll[k]) = Len(splitAll[1])
  /\ Len(splitAll[1]) >= 1
  /\ 2 * Len(splitAll[1]) <= splitBudget
  /\ splitBudget < 3 * Len(splitAll[1])

\* C17: after every iteration of the splitting loop, each batch after the
\* first begins with a string that did not fit the batch before it: the total
\* length of the earlier batch plus the truncated length of that string is
\* above the budget. Five strings of one length with a budget that holds two
\* of them end in three batches of two, two and one strings, which a ceiling
\* of three or more sends as one wave.
GreedySplit ==
  LET batches == splitAcc.batches
  IN /\ \A b \in 1..(Len(batches) - 1) :
          /\ Len(batches[b + 1]) >= 1
          /\ TotalLen(batches[b]) + Len(batches[b + 1][1]) > splitBudget
     /\ (splitIn = <<>> /\ FiveEqualTwoFit) =>
          /\ [b \in 1..Len(batches) |-> Len(batches[b])] = <<2, 2, 1>>
          /\ \A limit \in 3..(MaxItems + 1) :
               /\ Splice(batches, WaveSize(limit, Len(batches))).taken = batches
               /\ Splice(batches, WaveSize(limit, Len(batches))).rest = <<>>

\* C17's case: the loop has ended on five strings of one length with a budget
\* that holds two of them.
FiveEqualReached ==
  /\ splitIn = <<>>
  /\ FiveEqualTwoFit
  /\ Len(splitAcc.batches) = 3

\* The flushes whose batchVectorize has not returned.
Running(fls) == {f \in 1..Len(fls) : ~fls[f].done}

\* C18: in every state at most one flush is running and this._processing is
\* true exactly when one is; a step starts a flush only when none is running,
\* whichever timer expired, and a step that clears this._processing ends the
\* only running flush.
OneFlushAtATime ==
  /\ [](/\ Cardinality(Running(flushes)) <= 1
        /\ processing <=> Running(flushes) # {})
  /\ [][/\ Len(flushes') > Len(flushes) =>
             ~processing /\ Running(flushes) = {}
        /\ (processing /\ ~processing') =>
             Running(flushes') = {} /\ Len(flushes') = Len(flushes)
       ]_vars

\* C18's case: a timer has expired while the engine call of the running flush
\* was outstanding, with a request in the queue, and no second flush started;
\* the timer armed now is the one that callback set.
ExpiryDuringFlushReached ==
  /\ Cardinality(Running(flushes)) = 1
  /\ \E c \in 1..Len(calls) :
       calls[c].status = "pending" /\ calls[c].flush \in Running(flushes)
  /\ queue # <<>>
  /\ \E t \in armed : t.kind = "fast" /\ t.id # NewTimer({}, NoTimer)

\* ------------------------------------------------------------- progress
\* The state after construction and setEngine with an async function.
InitLive ==
  /\ vectorize = "fn"
  /\ \E cfg \in Configurations :
       /\ maximumBatchSize = cfg.maximumBatchSize
       /\ maximumParallelRequests = cfg.maximumParallelRequests
  /\ queue = <<>>
  /\ results = <<>>
  /\ timeout = NoTimer
  /\ armed = {}
  /\ processing = FALSE
  /\ flushes = <<>>
  /\ calls = <<>>
  /\ requests = <<>>
  /\ groups = <<>>
  /\ splitIn = <<>>
  /\ splitAll = <<>>
  /\ splitBudget = 0
  /\ splitAcc = SplitStart

\* The values and settlements of the progress runs: progress does not depend
\* on what is sent and returned, so one value (one that fills a batch of the
\* smaller budget alone) and two settlements (rejected with an Error,
\* fulfilled with an array of vectors) stand for all.
LiveValues == {Arr(<<"1">>)}

LiveSettlements(n) ==
  {s \in EngineSettlements(n) :
     \/ s.status = "rejected" /\ s.isError
     \/ s.isArray /\ \A k \in 1..n : s.entries[k] = "vector"}

\* Every operation on an instance whose engine stays set.
NextLive ==
  \/ \E v \in LiveValues : Create(v)
  \/ \E n \in 2..MaxReq : \E vs \in [1..n -> LiveValues] : BatchCreate(vs)
  \/ \E t \in armed : FastExpiryReschedule(t)
  \/ \E t \in armed : FastExpiryFlush(t)
  \/ \E t \in armed : FastExpiryExtend(t)
  \/ \E t \in armed : WaitExpiry(t)
  \/ \E c \in 1..Len(calls) :
       \E s \in LiveSettlements(Len(calls[c].args)) : EngineSettle(c, s)
  \/ \E r \in 1..Len(requests) : CreatePoll(r)

\* The runs in which timers expire, engine calls settle and the polling loops
\* of create run on: a timer that is set expires after its delay, every
\* engine call is taken to settle, and the polling loop wakes every 10 ms.
Fairness ==
  /\ WF_vars(\E t \in armed : FastExpiryReschedule(t))
  /\ WF_vars(\E t \in armed : FastExpiryFlush(t))
  /\ WF_vars(\E t \in armed : FastExpiryExtend(t))
  /\ WF_vars(\E t \in armed : WaitExpiry(t))
  /\ WF_vars(\E c \in 1..Len(calls) :
               \E s \in LiveSettlements(Len(calls[c].args)) : EngineSettle(c, s))
  /\ WF_vars(\E r \in 1..Len(requests) : CreatePoll(r))

SpecLive == InitLive /\ [][NextLive]_vars /\ Fairness

\* Request r has been issued and its create has neither returned nor thrown.
Waiting(r) == r <= Len(requests) /\ requests[r].pc = "waiting"

EngineNeverGivenEmptyList ==
  /\ \A f \in 1..Len(flushes) :
       /\ Len(flushes[f].snapshot) >= 1
       /\ \A b \in 1..Len(flushes[f].batches) : Len(flushes[f].batches[b]) >= 1
  /\ \A c \in 1..Len(calls) : Len(calls[c].args) >= 1

\* C20's case: under a budget of zero a flush of two requests has called the
\* engine, with a list of two empty strings.
ZeroBudgetCallReached ==
  /\ maximumBatchSize = 0
  /\ \E c \in 1..Len(calls) :
       /\ Len(calls[c].args) = 2
       /\ \A k \in 1..2 : calls[c].args[k] = <<>>

====
